---- MODULE Spec2Model ----
(***************************************************************************)
(* Model of pandas-string-transformer: the StringTransformer pipeline      *)
(* (string_transformer.py) and the transform functions it is used with     *)
(* (common_transforms.py).                                                 *)
(*                                                                         *)
(* Python values are records with one shape, so that values of different   *)
(* Python types can be compared:                                           *)
(*   t  the type: "NoneType", "str", "int", "tuple", "list", "dict",       *)
(*      "function" (any callable object)                                   *)
(*   f  the name of a callable                                             *)
(*   s  the characters of a str (a sequence of one-character strings)      *)
(*   n  the value of an int                                                *)
(*   a  the items of a tuple or list                                       *)
(*   m  the items of a dict, in insertion order: <<key, value>> pairs, the *)
(*      key the characters of a str key                                    *)
(***************************************************************************)
EXTENDS Integers, Sequences, FiniteSets, TLC

VARIABLES
  _columns,   \* StringTransformer._columns: None or the list given to __init__
  _pipeline,  \* StringTransformer._pipeline: the list of (func, args, kwargs)
  frames,     \* the caller's data frames, by name
  last,       \* the last call made on the transformer and its outcome
  memo,       \* outcomes of transform per frame since the last registration
  mr,         \* a call of multi_replace: its inputs and its outcome
  hs          \* a call of hash_string: its inputs and its outcome

vars == <<_columns, _pipeline, frames, last, memo, mr, hs>>

----------------------------------------------------------------------------
(* Python values *)

Obj(t, f, s, n, a, m) == [t |-> t, f |-> f, s |-> s, n |-> n, a |-> a, m |-> m]
None == Obj("NoneType", "", <<>>, 0, <<>>, <<>>)
PyStr(s) == Obj("str", "", s, 0, <<>>, <<>>)
PyInt(n) == Obj("int", "", <<>>, n, <<>>, <<>>)
PyTuple(a) == Obj("tuple", "", <<>>, 0, a, <<>>)
PyList(a) == Obj("list", "", <<>>, 0, a, <<>>)
PyDict(m) == Obj("dict", "", <<>>, 0, <<>>, m)
PyFunc(name) == Obj("function", name, <<>>, 0, <<>>, <<>>)

\* The outcome of a Python expression: a value, or a raised exception.
Ret(v) == [raised |-> "", val |-> v]
Raise(kind) == [raised |-> kind, val |-> None]

\* callable(o): functions, builtins and instances of classes with __call__.
callable(o) == o.t = "function"

\* bool(o), as `not func` takes it: None, 0, empty str and empty containers
\* are false; an object is true unless its class defines __bool__ or __len__
\* (Empty is a callable container whose __len__ is 0).
Truthy(o) ==
  CASE o.t = "NoneType" -> FALSE
    [] o.t = "int" -> o.n # 0
    [] o.t = "str" -> o.s # <<>>
    [] o.t \in {"tuple", "list"} -> o.a # <<>>
    [] o.t = "dict" -> o.m # <<>>
    [] OTHER -> o.f # "Empty"

----------------------------------------------------------------------------
(* str methods *)

UpperLetters == <<"A","B","C","D","E","F","G","H","I","J","K","L","M",
                  "N","O","P","Q","R","S","T","U","V","W","X","Y","Z">>
LowerLetters == <<"a","b","c","d","e","f","g","h","i","j","k","l","m",
                  "n","o","p","q","r","s","t","u","v","w","x","y","z">>

LowerChar(c) ==
  IF \E i \in DOMAIN UpperLetters : UpperLetters[i] = c
    THEN LowerLetters[CHOOSE i \in DOMAIN UpperLetters : UpperLetters[i] = c]
    ELSE c

\* str.lower()
StrLower(s) == [i \in 1..Len(s) |-> LowerChar(s[i])]

\* "".join(parts)
RECURSIVE Join(_)
Join(parts) == IF parts = <<>> THEN <<>> ELSE Head(parts) \o Join(Tail(parts))

\* str.replace(old, new, count): the leftmost non-overlapping occurrences of
\* old, at most count of them (count < 0: all); an empty old matches before
\* every character and at the end.
RECURSIVE ReplaceCount(_, _, _, _)
ReplaceCount(s, old, new, count) ==
  IF count = 0 THEN s
  ELSE IF old = <<>> THEN
    IF s = <<>> THEN new
    ELSE new \o <<Head(s)>> \o ReplaceCount(Tail(s), old, new, count - 1)
  ELSE IF Len(s) < Len(old) THEN s
  ELSE IF SubSeq(s, 1, Len(old)) = old
    THEN new \o ReplaceCount(SubSeq(s, Len(old) + 1, Len(s)), old, new, count - 1)
    ELSE <<Head(s)>> \o ReplaceCount(Tail(s), old, new, count)

\* value.replace(search, replace) on Python values.
StrReplace(value, search, replace) ==
  IF value.t # "str" THEN Raise("AttributeError")
  ELSE IF search.t # "str" \/ replace.t # "str" THEN Raise("TypeError")
  ELSE Ret(PyStr(ReplaceCount(value.s, search.s, replace.s, -1)))

----------------------------------------------------------------------------
(* common_transforms.py *)

\* string.punctuation, without the grave accent, which no string of this
\* model holds.
punctuation == {"!", "\"", "#", "$", "%", "&", "'", "(", ")", "*", "+", ",",
                "-", ".", "/", ":", ";", "<", "=", ">", "?", "@", "[", "\\",
                "]", "^", "_", "{", "|", "}", "~"}

strip_punctuation(value, replace) ==
  IF value.t # "str" THEN Raise("TypeError")
  ELSE IF replace.t # "str" /\ \E i \in DOMAIN value.s : value.s[i] \in punctuation
    THEN Raise("TypeError")
  ELSE Ret(PyStr(Join([i \in 1..Len(value.s) |->
         IF value.s[i] \notin punctuation THEN <<value.s[i]>> ELSE replace.s])))

snake_case(value) ==
  IF value.t # "str" THEN Raise("AttributeError")
  ELSE Ret(PyStr(ReplaceCount(StrLower(value.s), <<" ">>, <<"_">>, -1)))

\* The loop of multi_replace from item i of mapping.items() on.
RECURSIVE MultiReplaceFrom(_, _, _)
MultiReplaceFrom(value, items, i) ==
  IF i > Len(items) THEN Ret(value)
  ELSE LET r == StrReplace(value, PyStr(items[i][1]), items[i][2])
       IN  IF r.raised # "" THEN r ELSE MultiReplaceFrom(r.val, items, i + 1)

MultiReplaceReversed(value, mapping) ==
  IF mapping.t # "dict" THEN Raise("AttributeError")
  ELSE MultiReplaceFrom(value,
         [i \in 1..Len(mapping.m) |-> mapping.m[Len(mapping.m) + 1 - i]], 1)

multi_replace(value, mapping) ==
  IF mapping.t # "dict" THEN Raise("AttributeError")
  ELSE MultiReplaceFrom(value, mapping.m, 1)

----------------------------------------------------------------------------
(* Calling a callable: func(value, *args, **kwargs) *)

Range(q) == {q[i] : i \in DOMAIN q}

ReplaceKw == <<"r", "e", "p", "l", "a", "c", "e">>
MappingKw == <<"m", "a", "p", "p", "i", "n", "g">>

\* The parameters after the first one, which can also be given by name
\* (def strip_punctuation(value, replace=""), def multi_replace(value,
\* mapping=None); the others take the value alone).
ExtraParams(name) ==
  CASE name = "strip_punctuation" -> <<ReplaceKw>>
    [] name = "multi_replace" -> <<MappingKw>>
    [] OTHER -> <<>>

DefaultArg(name) == IF name = "strip_punctuation" THEN PyStr(<<>>) ELSE None

\* The candidate callables: the transform functions of common_transforms.py,
\* the builtin len (returns an int), and Empty, an instance of
\*   class Empty:
\*       def __call__(self, s): return s
\*       def __len__(self): return 0
Call(func, value, args, kwargs) ==
  LET extra == ExtraParams(func.f)
      unbound == \/ Len(args) > Len(extra)
                 \/ \E i \in DOMAIN kwargs : kwargs[i][1] \notin Range(extra)
                 \/ Len(args) >= 1 /\ kwargs # <<>>
      second == IF Len(args) >= 1 THEN args[1]
                ELSE IF kwargs # <<>> THEN kwargs[1][2]
                ELSE DefaultArg(func.f)
  IN  IF ~callable(func) \/ unbound THEN Raise("TypeError")
      ELSE CASE func.f = "snake_case" -> snake_case(value)
             [] func.f = "strip_punctuation" -> strip_punctuation(value, second)
             [] func.f = "multi_replace" -> multi_replace(value, second)
             [] func.f = "len" ->
                  IF value.t = "str" THEN Ret(PyInt(Len(value.s)))
                  ELSE Raise("TypeError")
             [] OTHER -> Ret(value)

----------------------------------------------------------------------------
(* string_transformer.py: registration *)

Probe == PyStr(<<"t", "e", "s", "t", "_", "s", "t", "r", "i", "n", "g">>)

Step(func, args, kwargs) == [func |-> func, args |-> args, kwargs |-> kwargs]

\* _check_function(func, *args, **kwargs): the exception it raises ("" when it
\* returns) and whether it invoked func.
_check_function(func, args, kwargs) ==
  IF ~callable(func) THEN [raised |-> "TypeError", invoked |-> FALSE]
  ELSE LET result == Call(func, Probe, args, kwargs)
       IN  IF result.raised # "" THEN [raised |-> "ValueError", invoked |-> TRUE]
           ELSE IF result.val.t # "str"
             THEN [raised |-> "ValueError", invoked |-> TRUE]
           ELSE [raised |-> "", invoked |-> TRUE]

AddCallAppendFirst(pipeline, func, args, kwargs) ==
  LET c == _check_function(func, <<>>, <<>>)
  IN  [raised |-> c.raised, invoked |-> c.invoked,
       pipeline |-> Append(pipeline, Step(func, args, kwargs))]

\* add(func, *args, **kwargs) on a transformer whose _pipeline is pipeline:
\* what it raises and the _pipeline it leaves. Line 50 checks func alone,
\* without args and kwargs.
AddCall(pipeline, func, args, kwargs) ==
  LET c == _check_function(func, <<>>, <<>>)
  IN  [raised |-> c.raised, invoked |-> c.invoked,
       pipeline |-> IF c.raised = "" THEN Append(pipeline, Step(func, args, kwargs))
                    ELSE pipeline]

\* The loop of __add__ over the elements of a tuple step, from element i on.
RECURSIVE ScanElems(_, _, _)
ScanElems(elems, i, acc) ==
  IF i > Len(elems) THEN acc
  ELSE LET elem == elems[i]
       IN  ScanElems(elems, i + 1,
             IF callable(elem) THEN [acc EXCEPT !.func = elem]
             ELSE IF elem.t = "dict" THEN [acc EXCEPT !.kwargs = elem]
             ELSE IF elem.t \in {"tuple", "list"} THEN [acc EXCEPT !.args = elem]
             ELSE acc)

PlusCallNoHandlerCheck(pipeline, step) ==
  LET init == [func |-> None, args |-> PyList(<<>>), kwargs |-> PyDict(<<>>)]
      got == IF callable(step) THEN [init EXCEPT !.func = step]
             ELSE ScanElems(step.a, 1, init)
  IN  IF ~callable(step) /\ step.t # "tuple"
        THEN [raised |-> "TypeError", invoked |-> FALSE, pipeline |-> pipeline,
              self |-> FALSE]
      ELSE LET r == AddCall(pipeline, got.func, got.args.a, got.kwargs.m)
           IN  [raised |-> r.raised, invoked |-> r.invoked,
                pipeline |-> r.pipeline, self |-> r.raised = ""]

\* self + step: what it raises, the _pipeline it leaves, and whether it
\* returned self.
PlusCall(pipeline, step) ==
  LET init == [func |-> None, args |-> PyList(<<>>), kwargs |-> PyDict(<<>>)]
      got == IF callable(step) THEN [init EXCEPT !.func = step]
             ELSE ScanElems(step.a, 1, init)
  IN  IF ~callable(step) /\ step.t # "tuple"
        THEN [raised |-> "TypeError", invoked |-> FALSE, pipeline |-> pipeline,
              self |-> FALSE]
      ELSE IF ~Truthy(got.func)
        THEN [raised |-> "ValueError", invoked |-> FALSE, pipeline |-> pipeline,
              self |-> FALSE]
      ELSE LET r == AddCall(pipeline, got.func, got.args.a, got.kwargs.m)
           IN  [raised |-> r.raised, invoked |-> r.invoked,
                pipeline |-> r.pipeline, self |-> r.raised = ""]

----------------------------------------------------------------------------
(* string_transformer.py: application *)

\* The loop of _apply_steps from step i on.
RECURSIVE ApplyFrom(_, _, _)
ApplyFrom(pipeline, i, value) ==
  IF i > Len(pipeline) THEN Ret(value)
  ELSE LET r == Call(pipeline[i].func, value, pipeline[i].args, pipeline[i].kwargs)
       IN  IF r.raised # "" THEN r ELSE ApplyFrom(pipeline, i + 1, r.val)

ApplyStepsFirstOnly(pipeline, value) ==
  IF pipeline = <<>> THEN Ret(value)
  ELSE Call(pipeline[1].func, value, pipeline[1].args, pipeline[1].kwargs)

_apply_steps(pipeline, value) == ApplyFrom(pipeline, 1, value)

\* A data frame is the sequence of its columns, each
\* [name, dtype, cells]; _columns is [given, names]: given is FALSE for None.
NoColumns == [given |-> FALSE, names |-> <<>>]
Columns(names) == [given |-> TRUE, names |-> names]

ColumnNames(X) == {X[i].name : i \in DOMAIN X}
Column(X, col) == X[CHOOSE i \in DOMAIN X : X[i].name = col]

\* X.select_dtypes(include=["object"]), iterated: the names of the object
\* columns in column order.
RECURSIVE select_dtypes(_, _)
select_dtypes(X, dtype) ==
  IF X = <<>> THEN <<>>
  ELSE (IF Head(X).dtype = dtype THEN <<Head(X).name>> ELSE <<>>)
       \o select_dtypes(Tail(X), dtype)

\* Series.map(self._apply_steps): the cells in order; the first exception
\* ends it.
RECURSIVE MapCells(_, _, _, _)
MapCells(pipeline, cells, i, acc) ==
  IF i > Len(cells) THEN [raised |-> "", cells |-> acc]
  ELSE LET r == _apply_steps(pipeline, cells[i])
       IN  IF r.raised # "" THEN [raised |-> r.raised, cells |-> <<>>]
           ELSE MapCells(pipeline, cells, i + 1, Append(acc, r.val))

\* The loop of transform over columns from name i on; funcs is the dict built
\* so far, as <<name, cells>> pairs. X[col] raises KeyError for a name X
\* does not have.
RECURSIVE BuildFuncs(_, _, _, _, _)
BuildFuncs(pipeline, X, columns, i, funcs) ==
  IF i > Len(columns) THEN [raised |-> "", funcs |-> funcs]
  ELSE IF columns[i] \notin ColumnNames(X)
    THEN [raised |-> "KeyError", funcs |-> <<>>]
  ELSE LET r == MapCells(pipeline, Column(X, columns[i]).cells, 1, <<>>)
       IN  IF r.raised # "" THEN [raised |-> r.raised, funcs |-> <<>>]
           ELSE BuildFuncs(pipeline, X, columns, i + 1,
                           Append(funcs, <<columns[i], r.cells>>))

\* The dtype pandas gives a column of these cells.
InferDtype(cells) ==
  IF cells # <<>> /\ \A i \in DOMAIN cells : cells[i].t = "int"
    THEN "int64" ELSE "object"

\* X.assign(**funcs): a new frame, the named columns replaced (the last entry
\* of a name is the one the dict holds).
assign(X, funcs) ==
  [c \in DOMAIN X |->
     IF \E j \in DOMAIN funcs : funcs[j][1] = X[c].name
       THEN LET j == CHOOSE k \in DOMAIN funcs :
                       /\ funcs[k][1] = X[c].name
                       /\ \A l \in DOMAIN funcs : funcs[l][1] = X[c].name => l <= k
            IN  [name |-> X[c].name, dtype |-> InferDtype(funcs[j][2]),
                 cells |-> funcs[j][2]]
       ELSE X[c]]

\* self._columns or X.select_dtypes(include=["object"]): None and the empty
\* list are both false.
TargetColumns(columns, X) ==
  IF columns.given /\ columns.names # <<>> THEN columns.names
  ELSE select_dtypes(X, "object")

TransformCallSkipMissing(pipeline, columns, X) ==
  LET present == SelectSeq(TargetColumns(columns, X),
                           LAMBDA col : col \in ColumnNames(X))
      b == BuildFuncs(pipeline, X, present, 1, <<>>)
  IN  IF b.raised # "" THEN [raised |-> b.raised, returned |-> {}, X |-> X]
      ELSE [raised |-> "", returned |-> {assign(X, b.funcs)}, X |-> X]

TransformCallInPlace(pipeline, columns, X) ==
  LET b == BuildFuncs(pipeline, X, TargetColumns(columns, X), 1, <<>>)
  IN  IF b.raised # "" THEN [raised |-> b.raised, returned |-> {}, X |-> X]
      ELSE [raised |-> "", returned |-> {assign(X, b.funcs)},
            X |-> assign(X, b.funcs)]

\* transform(X): what it raises, the frame it returns (the set is empty when
\* it raises) and the frame X afterwards.
TransformCall(pipeline, columns, X) ==
  LET b == BuildFuncs(pipeline, X, TargetColumns(columns, X), 1, <<>>)
  IN  IF b.raised # "" THEN [raised |-> b.raised, returned |-> {}, X |-> X]
      ELSE [raised |-> "", returned |-> {assign(X, b.funcs)}, X |-> X]

----------------------------------------------------------------------------
(* The calls a client makes *)

MaxSteps == 2

Chars1(c) == <<c>>
Mapping == PyDict(<< <<Chars1("a"), PyStr(Chars1("b"))>> >>)

NoArgs == [args |-> <<>>, kwargs |-> <<>>]
ReplaceInt == [args |-> <<>>, kwargs |-> << <<ReplaceKw, PyInt(5)>> >>]
MappingArg == [args |-> <<Mapping>>, kwargs |-> <<>>]

\* What a client passes as func: transform functions, a callable that does
\* not return a str (len), a callable that is false (Empty), a non-callable.
UseFuncs == {PyFunc("snake_case"), PyFunc("strip_punctuation"), PyFunc("len")}
UseArgs == {NoArgs, ReplaceInt}
RegFuncs == {PyFunc("snake_case"), PyFunc("multi_replace"), PyFunc("len"),
             PyFunc("Empty"), PyInt(5)}
RegArgs == {NoArgs, ReplaceInt, MappingArg}

\* The step descriptions given to +: an object alone, or a tuple of some of
\* a callable, an args sequence and a kwargs dict, in every order.
ArgsElem == PyTuple(<<Mapping>>)
KwargsElem == PyDict(ReplaceInt.kwargs)
Orderings(S) == {q \in [1..Cardinality(S) -> S] : Range(q) = S}
TupleSteps ==
  {PyTuple(q) : q \in UNION {Orderings(S \cup E) :
     S \in {{}, {PyFunc("snake_case")}, {PyFunc("Empty")}},
     E \in SUBSET {ArgsElem, KwargsElem}}}
  \cup {PyTuple(<<f>>) : f \in RegFuncs}
PlusSteps == RegFuncs \cup {None, PyList(<<PyFunc("snake_case")>>)} \cup TupleSteps

\* The caller's data frames.
df1 == << [name |-> "x", dtype |-> "int64", cells |-> <<PyInt(1), PyInt(2)>>],
          [name |-> "label", dtype |-> "object",
           cells |-> <<PyStr(<<"A", " ", "b">>), PyStr(<<"c", ",", "d">>)>>] >>
df2 == << [name |-> "label", dtype |-> "object", cells |-> <<PyStr(<<"a", "b">>)>>],
          [name |-> "note", dtype |-> "object",
           cells |-> <<PyStr(<<"X", " ", "y">>)>>] >>
FrameIds == {"df1", "df2"}
InitFrames == [id \in FrameIds |-> IF id = "df1" THEN df1 ELSE df2]

\* The columns argument of the constructor.
ColumnChoices == {NoColumns, Columns(<<>>), Columns(<<"label">>),
                  Columns(<<"label", "missing">>), Columns(<<"x">>),
                  Columns(<<"x", "missing">>)}

ApplyValues == {PyStr(<<"A", " ", "b">>), PyStr(<<"c", ",", "d">>), PyInt(1)}

NoCall == [op |-> "__init__", func |-> None, args |-> <<>>, kwargs |-> <<>>,
           step |-> None, value |-> None, frame |-> "", X |-> <<>>,
           raised |-> "", invoked |-> FALSE, before |-> <<>>, result |-> None,
           returned |-> {}, self |-> FALSE]
NoMemo == [id \in FrameIds |-> {}]

MRIdle == [pc |-> "idle", value |-> None, mapping |-> None, raised |-> "",
           result |-> None]
HSIdle == [pc |-> "idle", value |-> <<>>, algorithm |-> "", available |-> {},
           raised |-> "", result |-> <<>>]

\* StringTransformer(columns)
Init ==
  /\ _columns \in ColumnChoices
  /\ _pipeline = <<>>
  /\ frames = InitFrames
  /\ last = NoCall
  /\ memo = NoMemo
  /\ mr = MRIdle
  /\ hs = HSIdle

add(func, args, kwargs) ==
  /\ Len(_pipeline) < MaxSteps
  /\ LET r == AddCall(_pipeline, func, args, kwargs)
     IN  /\ _pipeline' = r.pipeline
         /\ last' = [NoCall EXCEPT !.op = "add", !.func = func, !.args = args,
                       !.kwargs = kwargs, !.raised = r.raised,
                       !.invoked = r.invoked, !.before = _pipeline]
         /\ memo' = IF r.raised = "" THEN NoMemo ELSE memo
  /\ UNCHANGED <<_columns, frames, mr, hs>>

__add__(step) ==
  /\ Len(_pipeline) < MaxSteps
  /\ LET r == PlusCall(_pipeline, step)
     IN  /\ _pipeline' = r.pipeline
         /\ last' = [NoCall EXCEPT !.op = "__add__", !.step = step,
                       !.raised = r.raised, !.invoked = r.invoked,
                       !.before = _pipeline, !.self = r.self]
         /\ memo' = IF r.raised = "" THEN NoMemo ELSE memo
  /\ UNCHANGED <<_columns, frames, mr, hs>>

fit(id) ==
  /\ last' = [NoCall EXCEPT !.op = "fit", !.frame = id, !.X = frames[id],
                !.before = _pipeline, !.self = TRUE]
  /\ UNCHANGED <<_columns, _pipeline, frames, memo, mr, hs>>

apply_steps(value) ==
  /\ LET r == _apply_steps(_pipeline, value)
     IN  last' = [NoCall EXCEPT !.op = "_apply_steps", !.value = value,
                    !.raised = r.raised, !.result = r.val,
                    !.before = _pipeline]
  /\ UNCHANGED <<_columns, _pipeline, frames, memo, mr, hs>>

transform(id) ==
  /\ LET r == TransformCall(_pipeline, _columns, frames[id])
     IN  /\ frames' = [frames EXCEPT ![id] = r.X]
         /\ last' = [NoCall EXCEPT !.op = "transform", !.frame = id,
                       !.X = frames[id], !.raised = r.raised,
                       !.returned = r.returned, !.before = _pipeline]
         /\ memo' = [memo EXCEPT ![id] = @ \cup
                       {[raised |-> r.raised, returned |-> r.returned]}]
  /\ UNCHANGED <<_columns, _pipeline, mr, hs>>

\* A transformer in use: steps are registered with add, values and frames are
\* transformed.
Next ==
  \/ \E func \in UseFuncs, a \in UseArgs : add(func, a.args, a.kwargs)
  \/ \E id \in FrameIds : fit(id)
  \/ \E value \in ApplyValues : apply_steps(value)
  \/ \E id \in FrameIds : transform(id)

Spec == Init /\ [][Next]_vars

\* Registration alone, through add and through +.
NextReg ==
  \/ \E func \in RegFuncs, a \in RegArgs : add(func, a.args, a.kwargs)
  \/ \E step \in PlusSteps : __add__(step)

InitReg == Init /\ _columns \in {NoColumns, Columns(<<"label">>)}

SpecReg == InitReg /\ [][NextReg]_vars

----------------------------------------------------------------------------
(* Registration: claims C1, C2, C7, C8 (checked under SpecReg) *)

\* C1: add(f, *args, **kwargs) fails with TypeError if f is not callable;
\* otherwise it accepts the step exactly when f("test_string", *args,
\* **kwargs) returns a str, and fails with ValueError when that invocation
\* raises or returns a non-str.
C1_AddProbesWithArguments ==
  last.op = "add" =>
    LET r == Call(last.func, Probe, last.args, last.kwargs)
    IN  IF ~callable(last.func) THEN last.raised = "TypeError"
        ELSE IF r.raised # "" \/ r.val.t # "str" THEN last.raised = "ValueError"
        ELSE /\ last.raised = ""
             /\ _pipeline = Append(last.before,
                                   Step(last.func, last.args, last.kwargs))

\* C2: a successful add or + appends exactly one step, the one registered, at
\* the end and leaves the earlier steps in place; a failing one raises
\* TypeError or ValueError and leaves the steps and the columns as they were.
C2_StepsChangeOnlyBySuccessfulAppend ==
  [][last'.op \in {"add", "__add__"} =>
       IF last'.raised = ""
         THEN /\ Len(_pipeline') = Len(_pipeline) + 1
              /\ SubSeq(_pipeline', 1, Len(_pipeline)) = _pipeline
              /\ callable(_pipeline'[Len(_pipeline')].func)
              /\ last'.op = "add" =>
                   _pipeline'[Len(_pipeline')] =
                     Step(last'.func, last'.args, last'.kwargs)
              /\ _columns' = _columns
         ELSE /\ last'.raised \in {"TypeError", "ValueError"}
              /\ _pipeline' = _pipeline
              /\ _columns' = _columns]_vars

\* A call failed on a transformer that already holds a step.
C2_Witness ==
  /\ last.op \in {"add", "__add__"}
  /\ last.raised = "ValueError"
  /\ Len(_pipeline) = 1
  /\ last.before = _pipeline

\* What a step description describes: a callable alone, or a tuple of one
\* callable, at most one args sequence and at most one kwargs dict.
IsArgsSeq(o) == o.t \in {"tuple", "list"}
Describes(step) ==
  \/ callable(step)
  \/ /\ step.t = "tuple"
     /\ Cardinality({i \in DOMAIN step.a : callable(step.a[i])}) = 1
     /\ Cardinality({i \in DOMAIN step.a : IsArgsSeq(step.a[i])}) <= 1
     /\ Cardinality({i \in DOMAIN step.a : step.a[i].t = "dict"}) <= 1
     /\ \A i \in DOMAIN step.a :
          callable(step.a[i]) \/ IsArgsSeq(step.a[i]) \/ step.a[i].t = "dict"
DescribedFunc(step) ==
  IF callable(step) THEN step
  ELSE step.a[CHOOSE i \in DOMAIN step.a : callable(step.a[i])]
DescribedArgs(step) ==
  IF step.t = "tuple" /\ \E i \in DOMAIN step.a : IsArgsSeq(step.a[i])
    THEN step.a[CHOOSE i \in DOMAIN step.a : IsArgsSeq(step.a[i])].a
    ELSE <<>>
DescribedKwargs(step) ==
  IF step.t = "tuple" /\ \E i \in DOMAIN step.a : step.a[i].t = "dict"
    THEN step.a[CHOOSE i \in DOMAIN step.a : step.a[i].t = "dict"].m
    ELSE <<>>

\* C7: pipeline + step, for a step describing (f, args, kwargs), raises what
\* add(f, *args, **kwargs) raises and leaves the steps add leaves, and
\* returns the pipeline when it succeeds.
C7_PlusEquivalentToAdd ==
  (last.op = "__add__" /\ Describes(last.step)) =>
    LET r == AddCall(last.before, DescribedFunc(last.step),
                     DescribedArgs(last.step), DescribedKwargs(last.step))
    IN  /\ last.raised = r.raised
        /\ _pipeline = r.pipeline
        /\ last.self = (r.raised = "")

\* C8: pipeline + step raises TypeError for a step that is neither callable
\* nor a tuple, and ValueError for a tuple without a callable element; in
\* both cases no function is invoked and nothing is appended.
C8_MalformedStepRejected ==
  last.op = "__add__" =>
    /\ (~callable(last.step) /\ last.step.t # "tuple") =>
         /\ last.raised = "TypeError"
         /\ ~last.invoked
         /\ _pipeline = last.before
    /\ (last.step.t = "tuple"
        /\ \A i \in DOMAIN last.step.a : ~callable(last.step.a[i])) =>
         /\ last.raised = "ValueError"
         /\ ~last.invoked
         /\ _pipeline = last.before

\* A tuple of arguments without a callable was rejected on a transformer
\* that holds a step.
C8_Witness ==
  /\ last.op = "__add__"
  /\ last.step = PyTuple(<<ArgsElem, KwargsElem>>)
  /\ last.raised = "ValueError"
  /\ Len(_pipeline) = 1

----------------------------------------------------------------------------
(* Application: claims C3, C4, C5, C6 (checked under Spec) *)

\* fn(...f2(f1(s, *a1, **k1), *a2, **k2)..., *an, **kn), from the outside in;
\* an exception raised inside is the outcome.
RECURSIVE Composed(_, _)
Composed(steps, s) ==
  IF steps = <<>> THEN Ret(s)
  ELSE LET n == Len(steps)
           inner == Composed(SubSeq(steps, 1, n - 1), s)
       IN  IF inner.raised # "" THEN inner
           ELSE Call(steps[n].func, inner.val, steps[n].args, steps[n].kwargs)

\* C3: the per-value operation returns the composition of the steps in
\* insertion order, each applied once to the previous output with its own
\* fixed arguments; with no steps the value is returned unchanged.
C3_ApplyStepsIsComposition ==
  last.op = "_apply_steps" =>
    /\ [raised |-> last.raised, val |-> last.result] =
         Composed(_pipeline, last.value)
    /\ _pipeline = <<>> => (last.raised = "" /\ last.result = last.value)

\* Two different steps were applied to a string and both changed it.
C3_Witness ==
  /\ last.op = "_apply_steps"
  /\ Len(_pipeline) = 2
  /\ _pipeline[1].func # _pipeline[2].func
  /\ last.raised = ""
  /\ last.result # last.value
  /\ last.result # Composed(SubSeq(_pipeline, 1, 1), last.value).val
  /\ last.result # Composed(SubSeq(_pipeline, 2, 2), last.value).val

\* The frame equal to X except on the target columns, where each cell is
\* replaced by the per-value result.
Replaced(pipeline, X, targets) ==
  [c \in DOMAIN X |->
     IF X[c].name \in targets
       THEN [name |-> X[c].name,
             cells |-> [i \in DOMAIN X[c].cells |->
                          _apply_steps(pipeline, X[c].cells[i]).val]]
       ELSE [name |-> X[c].name, cells |-> X[c].cells]]
NamesAndCells(X) == [c \in DOMAIN X |-> [name |-> X[c].name, cells |-> X[c].cells]]

\* C4: transform(X) returns X with the cells of the target columns replaced;
\* the target columns are the list given to the constructor whenever one was
\* given, of any length, and the object columns of X only when none was.
C4_TargetsAreTheGivenColumns ==
  (last.op = "transform" /\ last.raised = "") =>
    LET targets == IF _columns.given THEN Range(_columns.names)
                   ELSE {last.X[c].name : c \in {d \in DOMAIN last.X :
                                                   last.X[d].dtype = "object"}}
    IN  /\ Cardinality(last.returned) = 1
        /\ \A Y \in last.returned :
             NamesAndCells(Y) = Replaced(_pipeline, last.X, targets)
        /\ _pipeline = <<>> => last.returned = {last.X}

\* C5: transform and fit leave the steps, the columns and the input frame as
\* they were, whether they return or raise; between registrations every
\* transform of the same frame has the same outcome.
C5_TransformHasNoSideEffects ==
  /\ [][last'.op \in {"transform", "fit"} =>
          /\ _pipeline' = _pipeline
          /\ _columns' = _columns
          /\ frames' = frames]_vars
  /\ [](\A id \in FrameIds : Cardinality(memo[id]) <= 1)

\* Both frames were transformed since the last registration, the last one
\* with an effect.
C5_Witness ==
  /\ last.op = "transform"
  /\ _pipeline # <<>>
  /\ last.returned # {}
  /\ last.returned # {last.X}
  /\ \A id \in FrameIds : memo[id] # {}

\* The configured names missing from X, and the exceptions the steps raise
\* on the cells of the target columns X has.
MissingNames(columns, X) ==
  IF columns.given THEN Range(columns.names) \ ColumnNames(X) ELSE {}
CellErrors(pipeline, columns, X) ==
  UNION {{_apply_steps(pipeline, Column(X, col).cells[i]).raised :
            i \in DOMAIN Column(X, col).cells} :
         col \in Range(TargetColumns(columns, X)) \cap ColumnNames(X)} \ {""}

\* C6 as stated: a configured name missing from the table makes transform
\* fail with KeyError; a step raising on a cell makes it fail with that
\* error; a failing call returns nothing and leaves the frame as it was.
C6_MissingColumnIsKeyError ==
  last.op = "transform" =>
    LET missing == MissingNames(_columns, last.X)
        errors == CellErrors(_pipeline, _columns, last.X)
    IN  /\ missing # {} => last.raised = "KeyError"
        /\ (missing = {} /\ errors # {}) => last.raised \in errors
        /\ last.raised # "" =>
             (last.returned = {} /\ frames[last.frame] = last.X)

\* The first target column, in list order, that is missing or has a cell on
\* which a step raises, and the first such cell.
ColumnFails(pipeline, X, col) ==
  \/ col \notin ColumnNames(X)
  \/ \E i \in DOMAIN Column(X, col).cells :
       _apply_steps(pipeline, Column(X, col).cells[i]).raised # ""
FirstFailure(pipeline, X, targets) ==
  LET k == CHOOSE i \in DOMAIN targets :
             /\ ColumnFails(pipeline, X, targets[i])
             /\ \A j \in 1..(i - 1) : ~ColumnFails(pipeline, X, targets[j])
      cells == Column(X, targets[k]).cells
      c == CHOOSE i \in DOMAIN cells :
             /\ _apply_steps(pipeline, cells[i]).raised # ""
             /\ \A j \in 1..(i - 1) : _apply_steps(pipeline, cells[j]).raised = ""
  IN  IF targets[k] \notin ColumnNames(X) THEN "KeyError"
      ELSE _apply_steps(pipeline, cells[c]).raised

\* C6, amended: transform takes the target columns in list order and fails
\* at the first that is missing, with KeyError, or that has a cell on which a
\* step raises, with that step's exception; so a missing configured name
\* always makes the call fail, with KeyError unless a step raises on a cell
\* of a column listed before it. A failing call returns nothing and leaves
\* the frame as it was; a call fails only for these reasons.
C6_FailsAtFirstProblemAllOrNothing ==
  last.op = "transform" =>
    LET targets == TargetColumns(_columns, last.X)
        fails == \E i \in DOMAIN targets :
                   ColumnFails(_pipeline, last.X, targets[i])
    IN  /\ MissingNames(_columns, last.X) # {} => last.raised # ""
        /\ fails => /\ last.raised = FirstFailure(_pipeline, last.X, targets)
                    /\ last.returned = {}
                    /\ frames[last.frame] = last.X
        /\ ~fails => (last.raised = "" /\ Cardinality(last.returned) = 1)

\* A configured column was missing and the call failed with the exception of
\* a step, raised on a cell of a column listed before the missing one.
C6_Witness ==
  /\ last.op = "transform"
  /\ MissingNames(_columns, last.X) # {}
  /\ last.raised \notin {"", "KeyError"}
  /\ last.returned = {}

----------------------------------------------------------------------------
(* multi_replace on its own: claim C9 (checked under SpecReplace) *)

MaxLen == 3
MaxRules == 2

ReplaceChars == {"a", "b", "c"}
Strings(n) == UNION {[1..k -> ReplaceChars] : k \in 0..n}
SearchStrings == {<<>>, <<"a">>, <<"b">>}
Replacements == {<<>>, <<"b">>, <<"c">>}

\* The dicts of up to MaxRules rules: the keys of a dict are distinct.
RuleLists ==
  UNION {{r \in [1..k -> SearchStrings \X Replacements] :
            \A i, j \in 1..k : i # j => r[i][1] # r[j][1]} : k \in 0..MaxRules}
Mappings ==
  {PyDict([i \in DOMAIN q |-> <<q[i][1], PyStr(q[i][2])>>]) : q \in RuleLists}

InitReplace ==
  /\ _columns = NoColumns
  /\ _pipeline = <<>>
  /\ frames = InitFrames
  /\ last = NoCall
  /\ memo = NoMemo
  /\ hs = HSIdle
  /\ \E value \in Strings(MaxLen), mapping \in Mappings \cup {None} :
       mr = [MRIdle EXCEPT !.pc = "call", !.value = PyStr(value),
                           !.mapping = mapping]

\* multi_replace(value, mapping)
CallMultiReplace ==
  /\ mr.pc = "call"
  /\ LET r == multi_replace(mr.value, mr.mapping)
     IN  mr' = [mr EXCEPT !.pc = "done", !.raised = r.raised, !.result = r.val]
  /\ UNCHANGED <<_columns, _pipeline, frames, last, memo, hs>>

NextReplace == CallMultiReplace

SpecReplace == InitReplace /\ [][NextReplace]_vars

\* The fold of replace-all over the rules, from the outside in: the last rule
\* applied to the result of the rules before it.
RECURSIVE FoldReplace(_, _)
FoldReplace(s, rules) ==
  IF rules = <<>> THEN s
  ELSE LET n == Len(rules)
       IN  ReplaceCount(FoldReplace(s, SubSeq(rules, 1, n - 1)),
                        rules[n][1], rules[n][2].s, -1)

Reversed(q) == [i \in 1..Len(q) |-> q[Len(q) + 1 - i]]
Abc == <<"a", "b", "c">>
AToBThenBToC == PyDict(<< <<Chars1("a"), PyStr(Chars1("b"))>>,
                          <<Chars1("b"), PyStr(Chars1("c"))>> >>)

\* C9: multi_replace(value, mapping) is the fold of literal replace-all over
\* the rules in mapping order, each rule applied to the output of the one
\* before; multi_replace("abc", {"a": "b", "b": "c"}) is "ccc".
C9_MultiReplaceIsSequentialFold ==
  (mr.pc = "done" /\ mr.mapping.t = "dict") =>
    /\ mr.raised = ""
    /\ mr.result = PyStr(FoldReplace(mr.value.s, mr.mapping.m))
    /\ (mr.value.s = Abc /\ mr.mapping = AToBThenBToC) =>
         mr.result.s = <<"c", "c", "c">>

\* "abc" with a -> b, b -> c gave "ccc", which the same rules in the other
\* order do not give.
C9_Witness ==
  /\ mr.pc = "done"
  /\ mr.value.s = Abc
  /\ mr.mapping = AToBThenBToC
  /\ mr.result.s = <<"c", "c", "c">>
  /\ FoldReplace(Abc, Reversed(AToBThenBToC.m)) # mr.result.s

----------------------------------------------------------------------------
(* hash_string on its own: claim C10 (checked under SpecHash) *)

MaxChars == 2

\* Code points of the strings hashed: a, e with acute accent, a lone
\* surrogate (which has no UTF-8 encoding).
CodePoints == {97, 233, 55296}
Texts == UNION {[1..k -> CodePoints] : k \in 0..MaxChars}

\* hashlib.algorithms_guaranteed is part of hashlib.algorithms_available on
\* every runtime, and each of its names is a constructor of the module; the
\* names OpenSSL adds to algorithms_available depend on the build and are no
\* attributes of the module. The model takes some names of each kind.
Guaranteed == {"md5", "sha1", "sha256", "shake_128"}
FromOpenSSL == {"sha512_256", "md5-sha1"}
ModuleAttributes == Guaranteed
VariableLength == {"shake_128"}
AlgorithmNames == Guaranteed \cup FromOpenSSL \cup {"not_an_algo", "SHA1"}

\* str.encode(): UTF-8; a surrogate raises UnicodeEncodeError.
Encodable(text) == \A i \in DOMAIN text : text[i] \notin 55296..57343
EncodeChar(cp) ==
  IF cp < 128 THEN <<cp>>
  ELSE IF cp < 2048 THEN <<192 + (cp \div 64), 128 + (cp % 64)>>
  ELSE <<224 + (cp \div 4096), 128 + ((cp \div 64) % 64), 128 + (cp % 64)>>
encode(text) == Join([i \in 1..Len(text) |-> EncodeChar(text[i])])

\* The digest of the bytes, standing for the library's: a checksum of one
\* byte, seeded by the algorithm.
Seed(algorithm) ==
  CASE algorithm = "md5" -> 5 [] algorithm = "sha1" -> 1
    [] algorithm = "sha256" -> 2 [] OTHER -> 0
RECURSIVE Checksum(_, _)
Checksum(h, data) ==
  IF data = <<>> THEN h ELSE Checksum((h * 31 + Head(data)) % 256, Tail(data))
HexDigits == <<"0", "1", "2", "3", "4", "5", "6", "7", "8", "9",
               "a", "b", "c", "d", "e", "f">>
hexdigest(algorithm, data) ==
  LET h == Checksum(Seed(algorithm), data)
  IN  <<HexDigits[(h \div 16) + 1], HexDigits[(h % 16) + 1]>>

\* hash_string(value, algorithm) where hashlib.algorithms_available is
\* available: what it raises and the str it returns.
hash_string(value, algorithm, available) ==
  IF algorithm \notin available THEN [raised |-> "ValueError", result |-> <<>>]
  ELSE IF algorithm \notin ModuleAttributes
    THEN [raised |-> "AttributeError", result |-> <<>>]
  ELSE IF ~Encodable(value)
    THEN [raised |-> "UnicodeEncodeError", result |-> <<>>]
  ELSE IF algorithm \in VariableLength
    THEN [raised |-> "TypeError", result |-> <<>>]
  ELSE [raised |-> "", result |-> hexdigest(algorithm, encode(value))]

InitHash ==
  /\ _columns = NoColumns
  /\ _pipeline = <<>>
  /\ frames = InitFrames
  /\ last = NoCall
  /\ memo = NoMemo
  /\ mr = MRIdle
  /\ \E value \in Texts, algorithm \in AlgorithmNames,
        extra \in SUBSET FromOpenSSL :
       hs = [HSIdle EXCEPT !.pc = "call", !.value = value,
                           !.algorithm = algorithm,
                           !.available = Guaranteed \cup extra]

CallHashString ==
  /\ hs.pc = "call"
  /\ LET r == hash_string(hs.value, hs.algorithm, hs.available)
     IN  hs' = [hs EXCEPT !.pc = "done", !.raised = r.raised,
                          !.result = r.result]
  /\ UNCHANGED <<_columns, _pipeline, frames, last, memo, mr>>

NextHash == CallHashString

SpecHash == InitHash /\ [][NextHash]_vars

\* ValueError and its subclasses.
ValueErrorKinds == {"ValueError", "UnicodeEncodeError"}

\* C10: hash_string(s, a) fails with a ValueError-kind error if a is not in
\* the registry, returns the lowercase hex digest of the UTF-8 encoding of s
\* for every a in the registry, and raises no other kind of error.
C10_HashStringRegistryContract ==
  hs.pc = "done" =>
    /\ hs.algorithm \notin hs.available => hs.raised \in ValueErrorKinds
    /\ (hs.algorithm \in hs.available /\ Encodable(hs.value)) =>
         /\ hs.raised = ""
         /\ hs.result = hexdigest(hs.algorithm, encode(hs.value))
    /\ hs.raised # "" => hs.raised \in ValueErrorKinds

====
